---- MODULE Spec2Model ----
(***************************************************************************)
(* The .NET AI interface bridge of the engine: the exported C surface of   *)
(* DotNetExport.cpp (initStatic, releaseStatic, load/unload) over the      *)
(* process-wide g_interface, and the class CDotNetInterface with its       *)
(* instance registry loadedAIs and the three static callbacks InitAI,      *)
(* ReleaseAI and HandleEvent that the host reaches through the             *)
(* SSkirmishAILibrary table.  All calls come from one host thread, one     *)
(* call completing before the next begins.                                 *)
(*                                                                         *)
(* The second program is the native stub library of the F# wrapper         *)
(* (SpringAIWrapperInterface.cpp): a fixed unit table, the resource state  *)
(* and the frame counter, read through FillUnitArray, FillResourceState    *)
(* and the Get* queries.  It shares no state with the bridge and has its   *)
(* own specifications, SpecWrapper and SpecRadius.                         *)
(*                                                                         *)
(* The third program is the engine's shutdown path (SpringApp.cpp): the    *)
(* main loop of SpringApp::Run on the main thread, SpringApp::PostKill on  *)
(* another thread, and SpringApp::Kill with its killedCount guard.  Its    *)
(* specification is SpecApp.                                               *)
(***************************************************************************)
EXTENDS Integers, Sequences, FiniteSets, TLC

\* ------------------------------------------------------------------ bounds
MaxId == 2            \* skirmishAIIds the host hands out: 1..MaxId
MaxInterfaceId == 2   \* interfaceIds the host passes to initStatic
MaxTopic == 1         \* event topics 1..MaxTopic
MaxCap == 6           \* capacity of the caller's Unit array: 1..MaxCap
MaxFrame == 4         \* FillResourceState stops filling at this frame
MaxStep == 3          \* teardown steps of SpringApp::Kill: 1..MaxStep
MaxResults == 3       \* capacity of the caller's id array; maxResults up to it

AIIds == 1..MaxId
InterfaceIds == 1..MaxInterfaceId
Topics == 1..MaxTopic
\* the (shortName, version) arguments the host passes to load/unload
ShortNames == {"ExampleDotNetAI", "A"}
Versions == {"1.0"}
Kinds == ShortNames \X Versions

VARIABLES
    g_interface,          \* DotNetExport.cpp: the unique_ptr, "null" or "obj"
    instance,             \* CDotNetInterface::instance, "null" or "obj"
    interfaceId,          \* CDotNetInterface::interfaceId (0: no object)
    loadedAIs,            \* std::map<int, AIInfo>: skirmishAIId -> AIInfo
    dotnetRuntimeLoaded,  \* CDotNetInterface::dotnetRuntimeLoaded
    dotnetRuntimeHandle,  \* CDotNetInterface::dotnetRuntimeHandle
    aiLibrary,            \* the function-local static SSkirmishAILibrary
    hostLib,              \* the table pointer the host holds ("null": none)
    crashed,              \* the process has faulted inside a call
    disk,                 \* the kinds that have an assembly on disk
    last,                 \* the most recent call: arguments, result, state before
    prev,                 \* the call before it
    mockResources,        \* wrapper stub: the static ResourceState
    currentFrame,         \* wrapper stub: the static frame counter
    units,                \* the caller's Unit array of the latest FillUnitArray
    resources,            \* the caller's ResourceState of the latest FillResourceState
    wlast,                \* the most recent call into the wrapper stub
    resultIds,            \* the caller's id array of the latest GetUnitsInRadius
    pc,                   \* SpringApp: where the main thread is in Run
    tpc,                  \* SpringApp: where the other thread is in PostKill
    globalQuit,           \* gu->globalQuit
    threadError,          \* Threading's thread error is non-empty
    reg,                  \* the value the main thread computed for globalQuit
    killedCount,          \* SpringApp.cpp: static unsigned int killedCount
    kstep,                \* the teardown step the running Kill is at (0: none)
    ran,                  \* how often each teardown step has run
    klast,                \* the most recent call of Kill
    reported,             \* Run has reported the thread error
    killTrue              \* the number of Kill(true) calls made by Run

\* the variables of the bridge
bvars == <<g_interface, instance, interfaceId, loadedAIs, dotnetRuntimeLoaded,
           dotnetRuntimeHandle, aiLibrary, hostLib, crashed, disk, last, prev>>

\* the variables of the wrapper stub
wvars == <<mockResources, currentFrame, units, resources, wlast, resultIds>>

\* the variables of the shutdown path
avars == <<pc, tpc, globalQuit, threadError, reg, killedCount, kstep, ran,
           klast, reported, killTrue>>

vars == <<g_interface, instance, interfaceId, loadedAIs, dotnetRuntimeLoaded,
          dotnetRuntimeHandle, aiLibrary, hostLib, crashed, disk, last, prev,
          mockResources, currentFrame, units, resources, wlast, resultIds,
          pc, tpc, globalQuit, threadError, reg, killedCount, kstep, ran,
          klast, reported, killTrue>>

\* The bridge state as one record: the two singleton references and the
\* members of the CDotNetInterface object.
Bridge ==
    [g |-> g_interface, inst |-> instance, ifId |-> interfaceId,
     ais |-> loadedAIs, loaded |-> dotnetRuntimeLoaded,
     handle |-> dotnetRuntimeHandle]

\* No object: both references null and no members.
NoBridge ==
    [g |-> "null", inst |-> "null", ifId |-> 0, ais |-> <<>>,
     loaded |-> FALSE, handle |-> "null"]

\* The zero-initialised static table before LoadSkirmishAILibrary fills it.
EmptyLibrary ==
    [getLevelOfSupportFor |-> "null", init |-> "null", release |-> "null",
     handleEvent |-> "null"]

\* ------------------------------------------------------- std::map helpers
MapInsert(m, k, v) == [x \in (DOMAIN m) \cup {k} |-> IF x = k THEN v ELSE m[x]]

MapErase(m, k) == [x \in (DOMAIN m) \ {k} |-> m[x]]

MapBegin(m) == CHOOSE k \in DOMAIN m : \A j \in DOMAIN m : k <= j

\* The result of one call: return code, bridge state afterwards, whether
\* the call faulted instead of returning, the teardown steps it ran, the
\* ids DestroyAIInstance was called for, and the calls into the runtime.
Out(r, b) ==
    [ret |-> r, b |-> b, fault |-> FALSE, log |-> <<>>, visited |-> {},
     rt |-> <<>>]

\* ------------------------------------------------------- CDotNetInterface
\* Mutant of FindAIAssembly: the answer depends on the registry (a second
\* candidate path is returned once an instance is live).
FindAIAssembly_Stateful(shortName, version) ==
    IF loadedAIs = <<>> THEN "SpringAI.Wrapper.dll" ELSE "SpringAI.Wrapper.1.dll"

FindAIAssembly(shortName, version) == "SpringAI.Wrapper.dll"

\* Mutant of LoadDotNetRuntime: 0 is returned but the loaded flag is never
\* set.
LoadDotNetRuntime_NoSet(b) == Out(0, b)

\* Mutant of LoadDotNetRuntime: the start reports a failure but has already
\* set the loaded flag.
LoadDotNetRuntime_FailSets(b) == Out(-1, [b EXCEPT !.loaded = TRUE])

LoadDotNetRuntime(b) == Out(0, [b EXCEPT !.loaded = TRUE])

UnloadDotNetRuntime(b) ==
    IF b.loaded /\ b.handle # "null"
    THEN Out(0, [b EXCEPT !.handle = "null", !.loaded = FALSE])
    ELSE Out(0, b)

\* Mutant of CreateAIInstance: the "already loaded" check is missing, the
\* record of a live id is overwritten and 0 returned.
CreateAIInstance_NoExistCheck(b, skirmishAIId, shortName, version) ==
    LET assemblyPath == FindAIAssembly(shortName, version)
        aiInfo == [shortName |-> shortName, version |-> version,
                   assemblyPath |-> assemblyPath, dotnetHandle |-> "null"]
    IN  IF assemblyPath = ""
        THEN Out(-2, b)
        ELSE Out(0, [b EXCEPT !.ais = MapInsert(b.ais, skirmishAIId, aiInfo)])

\* Mutant of CreateAIInstance: the record is built but never stored.
CreateAIInstance_NoInsert(b, skirmishAIId, shortName, version) ==
    IF skirmishAIId \in DOMAIN b.ais
    THEN Out(-1, b)
    ELSE IF FindAIAssembly(shortName, version) = ""
         THEN Out(-2, b)
         ELSE Out(0, b)

\* Mutant of CreateAIInstance: presence is tested with operator[], which
\* inserts a record for the id before the test, so the call reports
\* "already loaded" and leaves the record behind.
CreateAIInstance_InsertFirst(b, skirmishAIId, shortName, version) ==
    LET aiInfo == [shortName |-> "", version |-> "", assemblyPath |-> "",
                   dotnetHandle |-> "null"]
    IN  IF skirmishAIId \in DOMAIN b.ais
        THEN Out(-1, b)
        ELSE Out(-1, [b EXCEPT !.ais = MapInsert(b.ais, skirmishAIId, aiInfo)])

\* Mutant of CreateAIInstance: the path is the empty string when the kind
\* has no assembly on disk, which makes the -2 branch reachable.
CreateAIInstance_ProbesDisk(b, skirmishAIId, shortName, version) ==
    IF skirmishAIId \in DOMAIN b.ais
    THEN Out(-1, b)
    ELSE LET assemblyPath == IF <<shortName, version>> \in disk
                             THEN FindAIAssembly(shortName, version)
                             ELSE ""
             aiInfo == [shortName |-> shortName, version |-> version,
                        assemblyPath |-> assemblyPath, dotnetHandle |-> "null"]
         IN  IF assemblyPath = ""
             THEN Out(-2, b)
             ELSE Out(0, [b EXCEPT !.ais = MapInsert(b.ais, skirmishAIId, aiInfo)])

CreateAIInstance(b, skirmishAIId, shortName, version) ==
    IF skirmishAIId \in DOMAIN b.ais
    THEN Out(-1, b)
    ELSE LET assemblyPath == FindAIAssembly(shortName, version)
             aiInfo == [shortName |-> shortName, version |-> version,
                        assemblyPath |-> assemblyPath, dotnetHandle |-> "null"]
         IN  IF assemblyPath = ""
             THEN Out(-2, b)
             ELSE Out(0, [b EXCEPT !.ais = MapInsert(b.ais, skirmishAIId, aiInfo)])

\* Mutant of DestroyAIInstance: the erase is missing.
DestroyAIInstance_NoErase(b, skirmishAIId) ==
    IF skirmishAIId \notin DOMAIN b.ais
    THEN Out(-1, b)
    ELSE Out(0, b)

\* Mutant of DestroyAIInstance: the whole map is cleared instead of the one
\* node being erased.
DestroyAIInstance_EraseAll(b, skirmishAIId) ==
    IF skirmishAIId \notin DOMAIN b.ais
    THEN Out(-1, b)
    ELSE Out(0, [b EXCEPT !.ais = <<>>])

\* Mutant of DestroyAIInstance: the erase sits inside the "if (dotnetHandle)"
\* block, so a record whose handle is null is never removed.
DestroyAIInstance_EraseOnlyIfHandle(b, skirmishAIId) ==
    IF skirmishAIId \notin DOMAIN b.ais
    THEN Out(-1, b)
    ELSE IF b.ais[skirmishAIId].dotnetHandle # "null"
         THEN Out(0, [b EXCEPT !.ais = MapErase(b.ais, skirmishAIId)])
         ELSE Out(0, b)

DestroyAIInstance(b, skirmishAIId) ==
    IF skirmishAIId \notin DOMAIN b.ais
    THEN Out(-1, b)
    ELSE Out(0, [b EXCEPT !.ais = MapErase(b.ais, skirmishAIId)])

\* The range-for holds an iterator to the node DestroyAIInstance erases, so
\* advancing it after the first erase is undefined: the call may fault, or
\* go on to any of the remaining nodes, or stop; when the loop ends,
\* clear() empties the map.
UnloadAllSkirmishAILibraries(b) ==
    IF DOMAIN b.ais = {}
    THEN {Out(0, b)}
    ELSE LET first == MapBegin(b.ais)
             rest == (DOMAIN b.ais) \ {first}
         IN  {[Out(0, [b EXCEPT !.ais = <<>>]) EXCEPT !.visited = {first} \cup S]
                 : S \in SUBSET rest}
             \cup
             {[Out(0, [b EXCEPT !.ais = [x \in rest \ S |-> b.ais[x]]])
                 EXCEPT !.visited = {first} \cup S, !.fault = TRUE]
                 : S \in SUBSET rest}

\* Mutant of UnloadSkirmishAILibrary: unloading a kind destroys the live
\* instances of that kind.
UnloadSkirmishAILibrary_DestroysInstances(b, shortName, version) ==
    Out(0, [b EXCEPT !.ais =
               [x \in {k \in DOMAIN b.ais :
                          ~(b.ais[k].shortName = shortName
                            /\ b.ais[k].version = version)} |-> b.ais[x]]])

UnloadSkirmishAILibrary(b, shortName, version) == Out(0, b)

\* Mutant of InitAI: the null check of the singleton is missing.
InitAI_NoNullCheck(b, skirmishAIId) ==
    CreateAIInstance(b, skirmishAIId, "ExampleDotNetAI", "1.0")

\* Mutant of InitAI: the kind is chosen from the id instead of being the
\* fixed default.
InitAI_KindFromId(b, skirmishAIId) ==
    IF b.inst = "null"
    THEN Out(-1, b)
    ELSE CreateAIInstance(b, skirmishAIId,
                          IF skirmishAIId = 1 THEN "ExampleDotNetAI" ELSE "A",
                          "1.0")

InitAI(b, skirmishAIId) ==
    IF b.inst = "null"
    THEN Out(-1, b)
    ELSE CreateAIInstance(b, skirmishAIId, "ExampleDotNetAI", "1.0")

ReleaseAI(b, skirmishAIId) ==
    IF b.inst = "null"
    THEN Out(-1, b)
    ELSE DestroyAIInstance(b, skirmishAIId)

\* Mutant of HandleEvent: the registry lookup is missing, every id is
\* treated as live.
HandleEvent_NoLookup(b, skirmishAIId, topicId) ==
    IF b.inst = "null"
    THEN Out(-1, b)
    ELSE Out(0, b)

\* Mutant of HandleEvent: an unknown id is reported with the "no bridge"
\* code, as DestroyAIInstance does.
HandleEvent_NotFoundAsNoBridge(b, skirmishAIId, topicId) ==
    IF b.inst = "null"
    THEN Out(-1, b)
    ELSE IF skirmishAIId \notin DOMAIN b.ais
         THEN Out(-1, b)
         ELSE Out(0, b)

HandleEvent(b, skirmishAIId, topicId) ==
    IF b.inst = "null"
    THEN Out(-1, b)
    ELSE IF skirmishAIId \notin DOMAIN b.ais
         THEN Out(-2, b)
         ELSE Out(0, b)

\* The head of LoadSkirmishAILibrary: resolve the assembly of the kind and
\* give up with a null table when there is none.
LoadSkirmishAILibraryResolve(shortName, version) ==
    FindAIAssembly(shortName, version)

\* Mutant of LoadSkirmishAILibrary: the handleEvent entry of the table is
\* left unset.
LoadSkirmishAILibrary_NoHandleEvent(b, lib, shortName, version) ==
    IF LoadSkirmishAILibraryResolve(shortName, version) = ""
    THEN [ptr |-> "null", lib |-> lib, out |-> Out(0, b)]
    ELSE [ptr |-> "aiLibrary",
          lib |-> [lib EXCEPT !.getLevelOfSupportFor = "null",
                              !.init = "InitAI", !.release = "ReleaseAI"],
          out |-> Out(0, b)]

\* The tail of LoadSkirmishAILibrary: fill the one static table and return
\* its address.
LoadSkirmishAILibrary(b, lib, shortName, version) ==
    IF LoadSkirmishAILibraryResolve(shortName, version) = ""
    THEN [ptr |-> "null", lib |-> lib, out |-> Out(0, b)]
    ELSE [ptr |-> "aiLibrary",
          lib |-> [getLevelOfSupportFor |-> "null", init |-> "InitAI",
                   release |-> "ReleaseAI", handleEvent |-> "HandleEvent"],
          out |-> Out(0, b)]

\* The constructor: members initialised, the singleton back-reference set,
\* the hosted runtime started.
Constructor(b, id) ==
    LoadDotNetRuntime([b EXCEPT !.inst = "obj", !.ifId = id, !.ais = <<>>,
                                !.loaded = FALSE, !.handle = "null"]).b

TeardownOrder == <<"unloadAll", "stopRuntime", "clearInstance">>

\* The destructor: unload all instances, unload the runtime, clear the
\* singleton back-reference; afterwards the members are gone.  Each step is
\* logged with the bridge state it starts from.
Destructor(b) ==
    { IF u.fault
      THEN [u EXCEPT !.log = <<[step |-> "unloadAll", b |-> b]>>]
      ELSE LET b2 == UnloadDotNetRuntime(u.b).b
               b3 == [b2 EXCEPT !.inst = "null"]
           IN  [u EXCEPT !.b = [NoBridge EXCEPT !.g = b3.g, !.inst = b3.inst],
                         !.log = <<[step |-> "unloadAll", b |-> b],
                                   [step |-> "stopRuntime", b |-> u.b],
                                   [step |-> "clearInstance", b |-> b2]>>]
      : u \in UnloadAllSkirmishAILibraries(b) }

\* ------------------------------------------------------- DotNetExport.cpp
\* Mutant of initStatic: the "already initialized" guard is missing, so a
\* second call constructs a new bridge over the first.
initStatic_NoGuard(b, id, ctorOk) ==
    IF ctorOk
    THEN Out(0, [Constructor(b, id) EXCEPT !.g = "obj"])
    ELSE Out(-2, b)

\* Mutant of initStatic: the pointer is stored before the construction is
\* known to have succeeded, so a failed construction leaves it set.
initStatic_FailLeavesPointer(b, id, ctorOk) ==
    IF b.g # "null"
    THEN Out(-1, b)
    ELSE IF ctorOk
         THEN Out(0, [Constructor(b, id) EXCEPT !.g = "obj"])
         ELSE Out(-2, [b EXCEPT !.g = "obj"])

\* make_unique allocates and constructs; ctorOk = FALSE is the allocation
\* throwing, which the catch (...) turns into -2.
initStatic(b, id, ctorOk) ==
    IF b.g # "null"
    THEN Out(-1, b)
    ELSE IF ctorOk
         THEN Out(0, [Constructor(b, id) EXCEPT !.g = "obj"])
         ELSE Out(-2, b)

\* Mutant of releaseStatic: the pointer is given up with release() instead
\* of reset(), so the object is never destroyed.
releaseStatic_NoDestructor(b) ==
    IF b.g = "null"
    THEN {Out(-1, b)}
    ELSE {Out(0, [b EXCEPT !.g = "null"])}

\* unique_ptr::reset() stores null first and then deletes the old object.
releaseStatic(b) ==
    IF b.g = "null"
    THEN {Out(-1, b)}
    ELSE Destructor([b EXCEPT !.g = "null"])

loadSkirmishAILibrary(b, lib, shortName, version) ==
    IF b.g = "null"
    THEN [ptr |-> "null", lib |-> lib, out |-> Out(0, b)]
    ELSE LoadSkirmishAILibrary(b, lib, shortName, version)

\* Mutant of unloadSkirmishAILibrary: the null check of g_interface is
\* missing and the call reports success without a bridge.
unloadSkirmishAILibrary_NoGuard(b, shortName, version) ==
    UnloadSkirmishAILibrary(b, shortName, version)

unloadSkirmishAILibrary(b, shortName, version) ==
    IF b.g = "null"
    THEN Out(-1, b)
    ELSE UnloadSkirmishAILibrary(b, shortName, version)

unloadAllSkirmishAILibraries(b) ==
    IF b.g = "null"
    THEN {Out(-1, b)}
    ELSE UnloadAllSkirmishAILibraries(b)

\* ------------------------------------- SpringAIWrapperInterface.cpp (stub)
\* The Unit table.  The float fields hold whole numbers and are integers
\* here.
mockUnits ==
    << [id |-> 1, defId |-> 101, x |-> 100, y |-> 0, z |-> 100,
        health |-> 100, maxHealth |-> 100, teamId |-> 0, state |-> 1],
       [id |-> 2, defId |-> 102, x |-> 150, y |-> 0, z |-> 150,
        health |-> 80, maxHealth |-> 80, teamId |-> 0, state |-> 1],
       [id |-> 3, defId |-> 103, x |-> 200, y |-> 0, z |-> 200,
        health |-> 60, maxHealth |-> 60, teamId |-> 0, state |-> 1],
       [id |-> 4, defId |-> 104, x |-> 250, y |-> 0, z |-> 250,
        health |-> 120, maxHealth |-> 120, teamId |-> 0, state |-> 1],
       [id |-> 5, defId |-> 105, x |-> 300, y |-> 0, z |-> 300,
        health |-> 200, maxHealth |-> 200, teamId |-> 0, state |-> 1] >>

\* The initializer of the static mockResources.
InitialResources ==
    [metal |-> 1000, energy |-> 500, metalStorage |-> 5000,
     energyStorage |-> 2500, metalIncome |-> 10, energyIncome |-> 5,
     currentFrame |-> 1]

MOCK_UNIT_COUNT == Len(mockUnits)

\* An entry of the caller's Unit array that nothing has written yet.
NoUnit ==
    [id |-> 0, defId |-> 0, x |-> 0, y |-> 0, z |-> 0, health |-> 0,
     maxHealth |-> 0, teamId |-> 0, state |-> 0]

\* A ResourceState of the caller that nothing has written yet.
NoResources ==
    [metal |-> 0, energy |-> 0, metalStorage |-> 0, energyStorage |-> 0,
     metalIncome |-> 0, energyIncome |-> 0, currentFrame |-> 0]

\* What the caller passes as Unit*: a null pointer, or an array of cap
\* entries.
NullUnits == [ptr |-> "null", cells |-> <<>>]

UnitArray(cap) == [ptr |-> "buf", cells |-> [i \in 1..cap |-> NoUnit]]

\* What the caller passes as ResourceState*.
NullResources == [ptr |-> "null", val |-> NoResources]

ResourceStruct == [ptr |-> "buf", val |-> NoResources]

Min(a, b) == IF a <= b THEN a ELSE b

\* memcpy of the first n entries of src over the first n entries of dst.
memcpy(dst, src, n) ==
    [i \in 1..Len(dst) |-> IF i <= n THEN src[i] ELSE dst[i]]

\* Mutant of FillUnitArray: the whole table is copied, whatever maxCount.
FillUnitArray_NoMin(u, maxCount) ==
    IF u.ptr = "null" \/ maxCount <= 0
    THEN [ret |-> 0, units |-> u]
    ELSE LET copyCount == MOCK_UNIT_COUNT
         IN  [ret |-> copyCount,
              units |-> [u EXCEPT !.cells = memcpy(u.cells, mockUnits, copyCount)]]

FillUnitArray(u, maxCount) ==
    IF u.ptr = "null" \/ maxCount <= 0
    THEN [ret |-> 0, units |-> u]
    ELSE LET copyCount == Min(maxCount, MOCK_UNIT_COUNT)
         IN  [ret |-> copyCount,
              units |-> [u EXCEPT !.cells = memcpy(u.cells, mockUnits, copyCount)]]

\* Mutant of FillResourceState: the counter is incremented before it is
\* read (++currentFrame).
FillResourceState_PreIncrement(r, mr, cf) ==
    IF r.ptr = "null"
    THEN [ret |-> 0, resources |-> r, mockResources |-> mr, currentFrame |-> cf]
    ELSE LET mr2 == [mr EXCEPT !.currentFrame = cf + 1,
                               !.metal = @ + mr.metalIncome,
                               !.energy = @ + mr.energyIncome]
         IN  [ret |-> 1, resources |-> [r EXCEPT !.val = mr2],
              mockResources |-> mr2, currentFrame |-> cf + 1]

\* mockResources.currentFrame takes the counter's value before the
\* increment.
FillResourceState(r, mr, cf) ==
    IF r.ptr = "null"
    THEN [ret |-> 0, resources |-> r, mockResources |-> mr, currentFrame |-> cf]
    ELSE LET mr2 == [mr EXCEPT !.currentFrame = cf,
                               !.metal = @ + mr.metalIncome,
                               !.energy = @ + mr.energyIncome]
         IN  [ret |-> 1, resources |-> [r EXCEPT !.val = mr2],
              mockResources |-> mr2, currentFrame |-> cf + 1]

GetUnitCount == MOCK_UNIT_COUNT

\* What the caller passes as int* resultIds: a null pointer, or an array of
\* MaxResults ids, none written yet (-1: no unit has this id).
NullIds == [ptr |-> "null", cells |-> <<>>]

IdArray == [ptr |-> "buf", cells |-> [i \in 1..MaxResults |-> 0 - 1]]

\* dx*dx + dy*dy + dz*dz
DistanceSquared(unit, centerX, centerY, centerZ) ==
    LET dx == unit.x - centerX
        dy == unit.y - centerY
        dz == unit.z - centerZ
    IN  dx * dx + dy * dy + dz * dz

\* The for loop of GetUnitsInRadius from index i (0-based) with foundCount
\* ids written so far.
RECURSIVE RadiusLoop(_, _, _, _, _, _, _, _, _, _)
RadiusLoop(cells, unitCount, centerX, centerY, centerZ, radiusSquared, ids, maxResults, i, foundCount) ==
    IF i < unitCount /\ foundCount < maxResults
    THEN LET unit == cells[i + 1]
         IN  IF DistanceSquared(unit, centerX, centerY, centerZ) <= radiusSquared
             THEN RadiusLoop(cells, unitCount, centerX, centerY, centerZ,
                             radiusSquared,
                             [ids EXCEPT ![foundCount + 1] = unit.id],
                             maxResults, i + 1, foundCount + 1)
             ELSE RadiusLoop(cells, unitCount, centerX, centerY, centerZ,
                             radiusSquared, ids, maxResults, i + 1, foundCount)
    ELSE [ret |-> foundCount, ids |-> ids]

\* Mutant of GetUnitsInRadius: the distance test is missing, every unit is
\* reported.
GetUnitsInRadius_NoDistance(allUnits, unitCount, centerX, centerY, centerZ, radius, ids, maxResults) ==
    IF \/ allUnits.ptr = "null" \/ ids.ptr = "null"
       \/ unitCount <= 0 \/ maxResults <= 0
    THEN [ret |-> 0, resultIds |-> ids]
    ELSE LET n == Min(unitCount, maxResults)
         IN  [ret |-> n,
              resultIds |->
                  [ids EXCEPT !.cells =
                      [j \in 1..Len(ids.cells) |->
                          IF j <= n THEN allUnits.cells[j].id
                          ELSE ids.cells[j]]]]

GetUnitsInRadius(allUnits, unitCount, centerX, centerY, centerZ, radius, ids, maxResults) ==
    IF \/ allUnits.ptr = "null" \/ ids.ptr = "null"
       \/ unitCount <= 0 \/ maxResults <= 0
    THEN [ret |-> 0, resultIds |-> ids]
    ELSE LET r == RadiusLoop(allUnits.cells, unitCount, centerX, centerY,
                             centerZ, radius * radius, ids.cells,
                             maxResults, 0, 0)
         IN  [ret |-> r.ret, resultIds |-> [ids EXCEPT !.cells = r.ids]]

GetCurrentFrame == mockResources.currentFrame

\* The record of a call into the stub; fills counts the FillResourceState
\* calls that returned 1 so far and reported is the frame the latest of them
\* wrote into the caller's struct (the initializer's frame before any).
NoWrapperCall ==
    [op |-> "none", maxCount |-> 0, ret |-> 0, preUnits |-> NullUnits,
     preResources |-> NullResources, preMock |-> InitialResources,
     preFrame |-> 1, fills |-> 0,
     reported |-> InitialResources.currentFrame,
     unitCount |-> 0, center |-> <<0, 0, 0>>, radius |-> 0,
     maxResults |-> 0, preIds |-> NullIds]

\* The stub's statics after load, and a caller that has passed nothing yet.
WrapperInit ==
    /\ mockResources = InitialResources
    /\ currentFrame = 1
    /\ units = NullUnits
    /\ resources = NullResources
    /\ wlast = NoWrapperCall
    /\ resultIds = NullIds

\* ---------------------------------------------------------- SpringApp.cpp
\* The teardown of Kill, cut at boundaries where a step can throw.
KillSteps == 1..MaxStep

\* Mutant of KillEnter: the killedCount guard is missing.
KillEnter_NoGuard(kc) == [run |-> TRUE, kc |-> kc + 1]

\* The head of Kill: return at once when a Kill is in progress or was
\* aborted, else count this Kill and run the teardown.
KillEnter(kc) ==
    IF kc > 0
    THEN [run |-> FALSE, kc |-> kc]
    ELSE [run |-> TRUE, kc |-> kc + 1]

\* The last statement of Kill; it is only reached by the Kill that counted
\* itself, so the unsigned killedCount is at least 1 here.
KillLeave(kc) == kc - 1

\* The record of a call of Kill: its argument, killedCount and the step
\* counts when it was called, and whether it returned at its guard.
NoKill ==
    [op |-> "none", fromRun |-> FALSE, preCount |-> 0, immediate |-> FALSE,
     preRan |-> [s \in KillSteps |-> 0]]

KillCall(fromRun, r) ==
    [op |-> "Kill", fromRun |-> fromRun, preCount |-> killedCount,
     immediate |-> ~r.run, preRan |-> ran]

\* The state when Run is entered.
AppInit ==
    /\ pc = "init"
    /\ tpc = "idle"
    /\ globalQuit = FALSE
    /\ threadError = FALSE
    /\ reg = FALSE
    /\ killedCount = 0
    /\ kstep = 0
    /\ ran = [s \in KillSteps |-> 0]
    /\ klast = NoKill
    /\ reported = FALSE
    /\ killTrue = 0

\* ------------------------------------------------------------ the machine
NoCall ==
    [op |-> "none", id |-> 0, topic |-> 0, name |-> "", version |-> "",
     ctorOk |-> TRUE, ret |-> 0, ptr |-> "null", returned |-> TRUE,
     pre |-> NoBridge, preLib |-> EmptyLibrary, log |-> <<>>, visited |-> {},
     rt |-> <<>>]

Init ==
    /\ g_interface = "null"
    /\ instance = "null"
    /\ interfaceId = 0
    /\ loadedAIs = <<>>
    /\ dotnetRuntimeLoaded = FALSE
    /\ dotnetRuntimeHandle = "null"
    /\ aiLibrary = EmptyLibrary
    /\ hostLib = "null"
    /\ crashed = FALSE
    /\ disk \in SUBSET Kinds
    /\ last = NoCall
    /\ prev = NoCall
    /\ WrapperInit
    /\ AppInit

\* One host call that ended with outcome o: the bridge state it leaves, and
\* the record of the call.
Call(c, o) ==
    /\ g_interface' = o.b.g
    /\ instance' = o.b.inst
    /\ interfaceId' = o.b.ifId
    /\ loadedAIs' = o.b.ais
    /\ dotnetRuntimeLoaded' = o.b.loaded
    /\ dotnetRuntimeHandle' = o.b.handle
    /\ crashed' = o.fault
    /\ disk' = disk
    /\ UNCHANGED wvars
    /\ UNCHANGED avars
    /\ prev' = last
    /\ last' = [c EXCEPT !.ret = o.ret, !.returned = ~o.fault, !.pre = Bridge,
                         !.preLib = aiLibrary, !.log = o.log,
                         !.visited = o.visited, !.rt = o.rt]

HostInitStatic ==
    /\ ~crashed
    /\ \E id \in InterfaceIds, ctorOk \in BOOLEAN :
          Call([NoCall EXCEPT !.op = "initStatic", !.id = id, !.ctorOk = ctorOk],
               initStatic(Bridge, id, ctorOk))
    /\ UNCHANGED <<aiLibrary, hostLib>>

HostReleaseStatic ==
    /\ ~crashed
    /\ \E o \in releaseStatic(Bridge) :
          Call([NoCall EXCEPT !.op = "releaseStatic"], o)
    /\ UNCHANGED <<aiLibrary, hostLib>>

HostLoadSkirmishAILibrary ==
    /\ ~crashed
    /\ \E n \in ShortNames, v \in Versions :
          LET r == loadSkirmishAILibrary(Bridge, aiLibrary, n, v)
          IN  /\ Call([NoCall EXCEPT !.op = "loadSkirmishAILibrary", !.name = n,
                                     !.version = v, !.ptr = r.ptr], r.out)
              /\ aiLibrary' = r.lib
              /\ hostLib' = IF r.ptr # "null" THEN r.ptr ELSE hostLib

HostUnloadSkirmishAILibrary ==
    /\ ~crashed
    /\ \E n \in ShortNames, v \in Versions :
          Call([NoCall EXCEPT !.op = "unloadSkirmishAILibrary", !.name = n,
                              !.version = v],
               unloadSkirmishAILibrary(Bridge, n, v))
    /\ UNCHANGED <<aiLibrary, hostLib>>

HostUnloadAllSkirmishAILibraries ==
    /\ ~crashed
    /\ \E o \in unloadAllSkirmishAILibraries(Bridge) :
          Call([NoCall EXCEPT !.op = "unloadAllSkirmishAILibraries"], o)
    /\ UNCHANGED <<aiLibrary, hostLib>>

\* The host calls through the table it was handed, also after the bridge
\* that handed it out was released.
HostCreateInstance ==
    /\ ~crashed
    /\ hostLib # "null"
    /\ \E id \in AIIds :
          Call([NoCall EXCEPT !.op = "createInstance", !.id = id],
               InitAI(Bridge, id))
    /\ UNCHANGED <<aiLibrary, hostLib>>

HostReleaseInstance ==
    /\ ~crashed
    /\ hostLib # "null"
    /\ \E id \in AIIds :
          Call([NoCall EXCEPT !.op = "releaseInstance", !.id = id],
               ReleaseAI(Bridge, id))
    /\ UNCHANGED <<aiLibrary, hostLib>>

HostHandleEvent ==
    /\ ~crashed
    /\ hostLib # "null"
    /\ \E id \in AIIds, t \in Topics :
          Call([NoCall EXCEPT !.op = "handleEvent", !.id = id, !.topic = t],
               HandleEvent(Bridge, id, t))
    /\ UNCHANGED <<aiLibrary, hostLib>>

Next ==
    \/ HostInitStatic
    \/ HostReleaseStatic
    \/ HostLoadSkirmishAILibrary
    \/ HostUnloadSkirmishAILibrary
    \/ HostUnloadAllSkirmishAILibraries
    \/ HostCreateInstance
    \/ HostReleaseInstance
    \/ HostHandleEvent

Spec == Init /\ [][Next]_vars

\* --------------------------------------------- the wrapper stub's machine
\* The caller passes null or an array of cap entries, and a maxCount that
\* does not exceed the array it passes.
CallFillUnitArray ==
    /\ \E cap \in 1..MaxCap, maxCount \in -1..MaxCap, isNull \in BOOLEAN :
          /\ maxCount <= cap
          /\ LET u == IF isNull THEN NullUnits ELSE UnitArray(cap)
                 r == FillUnitArray(u, maxCount)
             IN  /\ units' = r.units
                 /\ wlast' = [NoWrapperCall EXCEPT
                                 !.op = "FillUnitArray", !.maxCount = maxCount,
                                 !.ret = r.ret, !.preUnits = u,
                                 !.preResources = resources,
                                 !.preMock = mockResources,
                                 !.preFrame = currentFrame,
                                 !.fills = wlast.fills,
                                 !.reported = wlast.reported]
    /\ UNCHANGED <<mockResources, currentFrame, resources, resultIds>>
    /\ UNCHANGED bvars
    /\ UNCHANGED avars

CallFillResourceState ==
    /\ currentFrame < MaxFrame
    /\ \E isNull \in BOOLEAN :
          LET p == IF isNull THEN NullResources ELSE ResourceStruct
              r == FillResourceState(p, mockResources, currentFrame)
          IN  /\ resources' = r.resources
              /\ mockResources' = r.mockResources
              /\ currentFrame' = r.currentFrame
              /\ wlast' = [NoWrapperCall EXCEPT
                              !.op = "FillResourceState", !.ret = r.ret,
                              !.preUnits = units, !.preResources = p,
                              !.preMock = mockResources,
                              !.preFrame = currentFrame,
                              !.fills = IF r.ret = 1 THEN wlast.fills + 1
                                        ELSE wlast.fills,
                              !.reported = IF r.ret = 1
                                           THEN r.resources.val.currentFrame
                                           ELSE wlast.reported]
    /\ UNCHANGED <<units, resultIds>>
    /\ UNCHANGED bvars
    /\ UNCHANGED avars

\* The centres and radii the caller asks for.
Centers == {<<150, 0, 150>>, <<300, 0, 200>>}

Radii == {0 - 100, 100}

\* The number of entries of the caller's Unit array that hold a unit.
Filled(u) == Cardinality({i \in DOMAIN u.cells : u.cells[i] # NoUnit})

\* The caller passes null or the Unit array of its latest FillUnitArray
\* with a unitCount within the filled entries (as test_wrapper.cpp does),
\* and null or an id array with a maxResults within it.
CallGetUnitsInRadius ==
    /\ \E unitsNull \in BOOLEAN, idsNull \in BOOLEAN, unitCount \in -1..MaxCap,
          c \in Centers, radius \in Radii, maxResults \in -1..MaxResults :
          /\ unitCount <= Filled(units)
          /\ ~(unitsNull /\ idsNull)
          /\ LET a == IF unitsNull THEN NullUnits ELSE units
                 ids == IF idsNull THEN NullIds ELSE IdArray
                 r == GetUnitsInRadius(a, unitCount, c[1], c[2], c[3],
                                       radius, ids, maxResults)
             IN  /\ resultIds' = r.resultIds
                 /\ wlast' = [NoWrapperCall EXCEPT
                                 !.op = "GetUnitsInRadius", !.ret = r.ret,
                                 !.preUnits = a,
                                 !.preResources = resources,
                                 !.preMock = mockResources,
                                 !.preFrame = currentFrame,
                                 !.fills = wlast.fills,
                                 !.reported = wlast.reported,
                                 !.unitCount = unitCount, !.center = c,
                                 !.radius = radius,
                                 !.maxResults = maxResults, !.preIds = ids]
    /\ UNCHANGED <<mockResources, currentFrame, resources, units>>
    /\ UNCHANGED bvars
    /\ UNCHANGED avars

WrapperNext ==
    \/ CallFillUnitArray
    \/ CallFillResourceState

\* The stub right after load; the bridge is idle and has nothing on disk.
InitWrapper ==
    /\ Init
    /\ disk = {}

SpecWrapper == InitWrapper /\ [][WrapperNext]_vars

\* The spatial query over the arrays that FillUnitArray has filled.
RadiusNext ==
    \/ CallFillUnitArray
    \/ CallGetUnitsInRadius

SpecRadius == InitWrapper /\ [][RadiusNext]_vars

\* ------------------------------------------- the shutdown path's machine
\* globalQuit = !Init() || globalQuit: Init runs and the operand is read...
RunInit ==
    /\ pc = "init"
    /\ \E ok \in BOOLEAN : reg' = (~ok \/ globalQuit)
    /\ pc' = "initWrite"
    /\ UNCHANGED <<tpc, globalQuit, threadError, killedCount, kstep,
                   ran, klast, reported, killTrue>>
    /\ UNCHANGED <<bvars, wvars>>

\* ... and the result is stored.
RunInitWrite ==
    /\ pc = "initWrite"
    /\ globalQuit' = reg
    /\ pc' = "while"
    /\ UNCHANGED <<tpc, threadError, reg, killedCount, kstep, ran,
                   klast, reported, killTrue>>
    /\ UNCHANGED <<bvars, wvars>>

\* while (!gu->globalQuit)
RunWhile ==
    /\ pc = "while"
    /\ pc' = IF globalQuit THEN "afterLoop" ELSE "body"
    /\ UNCHANGED <<tpc, globalQuit, threadError, reg, killedCount,
                   kstep, ran, klast, reported, killTrue>>
    /\ UNCHANGED <<bvars, wvars>>

\* The globalReload branch of the loop body: Reload, globalQuit untouched.
RunReload ==
    /\ pc = "body"
    /\ pc' = "while"
    /\ UNCHANGED <<tpc, globalQuit, threadError, reg, killedCount,
                   kstep, ran, klast, reported, killTrue>>
    /\ UNCHANGED <<bvars, wvars>>

\* globalQuit = (!Update() || globalQuit): Update runs and the operand is
\* read, or Update throws into CATCH_SPRING_ERRORS.
RunUpdate ==
    /\ pc = "body"
    /\ \E ok \in BOOLEAN, throws \in BOOLEAN :
          IF throws
          THEN pc' = "errBox" /\ reg' = reg
          ELSE pc' = "updateWrite" /\ reg' = (~ok \/ globalQuit)
    /\ UNCHANGED <<tpc, globalQuit, threadError, killedCount, kstep,
                   ran, klast, reported, killTrue>>
    /\ UNCHANGED <<bvars, wvars>>

RunUpdateWrite ==
    /\ pc = "updateWrite"
    /\ globalQuit' = reg
    /\ pc' = "while"
    /\ UNCHANGED <<tpc, threadError, reg, killedCount, kstep, ran,
                   klast, reported, killTrue>>
    /\ UNCHANGED <<bvars, wvars>>

\* After the loop: a thread error is reported through ErrorMessageBox,
\* otherwise Run goes on to Kill(true).
RunAfterLoop ==
    /\ pc = "afterLoop"
    /\ IF threadError
       THEN reported' = TRUE /\ pc' = "errBox"
       ELSE reported' = reported /\ pc' = "callKill"
    /\ UNCHANGED <<tpc, globalQuit, threadError, reg, killedCount,
                   kstep, ran, klast, killTrue>>
    /\ UNCHANGED <<bvars, wvars>>

\* try { Kill(true); }
RunCallKill ==
    /\ pc = "callKill"
    /\ LET r == KillEnter(killedCount)
       IN  /\ klast' = KillCall(TRUE, r)
           /\ killedCount' = r.kc
           /\ kstep' = IF r.run THEN 1 ELSE 0
           /\ pc' = IF r.run THEN "inKill" ELSE "afterKill"
    /\ killTrue' = killTrue + 1
    /\ UNCHANGED <<tpc, globalQuit, threadError, reg, ran, reported>>
    /\ UNCHANGED <<bvars, wvars>>

\* ErrorMessageBox on the main thread calls Kill(false) and then ends the
\* process.
ErrorMessageBoxKill ==
    /\ pc = "errBox"
    /\ LET r == KillEnter(killedCount)
       IN  /\ klast' = KillCall(FALSE, r)
           /\ killedCount' = r.kc
           /\ kstep' = IF r.run THEN 1 ELSE 0
           /\ pc' = IF r.run THEN "inKillBox" ELSE "exit"
    /\ UNCHANGED <<tpc, globalQuit, threadError, reg, ran, reported,
                   killTrue>>
    /\ UNCHANGED <<bvars, wvars>>

\* One teardown step of the running Kill.  It completes, or it throws: the
\* exception leaves Kill before killedCount -= 1, into CATCH_SPRING_ERRORS
\* when Run called, out of the process when ErrorMessageBox called.
KillStep ==
    /\ pc \in {"inKill", "inKillBox"}
    /\ kstep \in KillSteps
    /\ ran' = [ran EXCEPT ![kstep] = @ + 1]
    /\ \E throws \in BOOLEAN :
          IF throws
          THEN /\ kstep' = 0
               /\ killedCount' = killedCount
               /\ pc' = IF pc = "inKill" THEN "errBox" ELSE "exit"
          ELSE IF kstep = MaxStep
               THEN /\ kstep' = 0
                    /\ killedCount' = KillLeave(killedCount)
                    /\ pc' = IF pc = "inKill" THEN "afterKill" ELSE "exit"
               ELSE /\ kstep' = kstep + 1
                    /\ killedCount' = killedCount
                    /\ pc' = pc
    /\ UNCHANGED <<tpc, globalQuit, threadError, reg, klast, reported,
                   killTrue>>
    /\ UNCHANGED <<bvars, wvars>>

\* A teardown step reports an error of its own through ErrorMessageBox:
\* Kill(false) is called while the Kill is in progress.  A Kill that does
\* not return at its guard runs the whole teardown.
KillReenter ==
    /\ pc \in {"inKill", "inKillBox"}
    /\ kstep \in KillSteps
    /\ LET r == KillEnter(killedCount)
       IN  /\ klast' = KillCall(FALSE, r)
           /\ killedCount' = IF r.run THEN KillLeave(r.kc) ELSE r.kc
           /\ ran' = IF r.run THEN [s \in KillSteps |-> ran[s] + 1]
                     ELSE ran
    /\ kstep' = 0
    /\ pc' = "exit"
    /\ UNCHANGED <<tpc, globalQuit, threadError, reg, reported,
                   killTrue>>
    /\ UNCHANGED <<bvars, wvars>>

\* After Kill(true): a thread error raised during Kill is only logged, and
\* Run returns.
RunAfterKill ==
    /\ pc = "afterKill"
    /\ pc' = "exit"
    /\ UNCHANGED <<tpc, globalQuit, threadError, reg, killedCount,
                   kstep, ran, klast, reported, killTrue>>
    /\ UNCHANGED <<bvars, wvars>>

\* PostKill on a thread that is not the main thread: an empty error only
\* deregisters the thread; otherwise the error is stored ...
PostKillStore ==
    /\ tpc = "idle"
    /\ pc # "exit"
    /\ \E empty \in BOOLEAN :
          IF empty
          THEN tpc' = "returned" /\ threadError' = threadError
          ELSE tpc' = "setQuit" /\ threadError' = TRUE
    /\ UNCHANGED <<pc, globalQuit, reg, killedCount, kstep, ran,
                   klast, reported, killTrue>>
    /\ UNCHANGED <<bvars, wvars>>

\* ... and then gu->globalQuit = true.
PostKillSetQuit ==
    /\ tpc = "setQuit"
    /\ pc # "exit"
    /\ globalQuit' = TRUE
    /\ tpc' = "done"
    /\ UNCHANGED <<pc, threadError, reg, killedCount, kstep, ran,
                   klast, reported, killTrue>>
    /\ UNCHANGED <<bvars, wvars>>

AppNext ==
    \/ RunInit
    \/ RunInitWrite
    \/ RunWhile
    \/ RunReload
    \/ RunUpdate
    \/ RunUpdateWrite
    \/ RunAfterLoop
    \/ RunCallKill
    \/ ErrorMessageBoxKill
    \/ KillStep
    \/ KillReenter
    \/ RunAfterKill
    \/ PostKillStore
    \/ PostKillSetQuit

SpecApp == InitWrapper /\ [][AppNext]_vars

\* ------------------------------------------------------------- the claims
Callbacks == {"createInstance", "releaseInstance", "handleEvent"}

\* C1: an initStatic called while the bridge is Active fails with a negative
\* code and leaves the bridge state (both singleton references, interface
\* id, instance registry, runtime flag and handle) exactly as it was.
C1_SecondInitRejected ==
    (last.op = "initStatic" /\ last.pre.g = "obj")
        => /\ last.returned
           /\ last.ret < 0
           /\ Bridge = last.pre

\* C1 witness: a second initStatic, with another interface id, on a bridge
\* that holds an instance.
C1_Witness ==
    /\ last.op = "initStatic"
    /\ last.pre.g = "obj"
    /\ last.id # last.pre.ifId
    /\ last.ctorOk
    /\ DOMAIN last.pre.ais # {}

\* C2: a releaseStatic called while the bridge is Active returns 0 and leaves
\* the bridge Uninitialized, whatever was done before, and the initStatic
\* that follows it (its construction succeeding) returns 0 again.
C2_ReleaseThenInitAgain ==
    /\ (last.op = "releaseStatic" /\ last.pre.g = "obj")
          => /\ last.returned
             /\ last.ret = 0
             /\ g_interface = "null"
             /\ instance = "null"
    /\ (/\ last.op = "initStatic" /\ last.ctorOk
        /\ prev.op = "releaseStatic" /\ prev.pre.g = "obj")
          => /\ last.ret = 0
             /\ g_interface = "obj"

\* C3: a static callback invoked while the facade is Uninitialized returns
\* -1, makes no runtime call and changes nothing of the bridge state.
C3_StaleCallbackRejected ==
    (last.op \in Callbacks /\ last.pre.g = "null")
        => /\ last.returned
           /\ last.ret = -1
           /\ last.rt = <<>>
           /\ Bridge = last.pre

\* C3 witness: the host calls through the table it still holds right after
\* a releaseStatic that returned 0.
C3_Witness ==
    /\ last.op \in Callbacks
    /\ last.pre.g = "null"
    /\ hostLib # "null"
    /\ prev.op = "releaseStatic"
    /\ prev.pre.g = "obj"
    /\ prev.returned
    /\ prev.ret = 0

C5_UnknownIdEvent ==
    (last.op = "handleEvent" /\ last.pre.g = "obj" /\ last.id \notin DOMAIN last.pre.ais)
        => /\ last.returned
           /\ last.ret = -2
           /\ last.rt = <<>>
           /\ Bridge = last.pre

\* C5 witness: an event for an id that is not live while another id is.
C5_Witness ==
    /\ last.op = "handleEvent"
    /\ last.pre.g = "obj"
    /\ last.id \notin DOMAIN last.pre.ais
    /\ DOMAIN last.pre.ais # {}

\* C6: handleEvent returns 0, -1 or -2: -1 exactly when the bridge is
\* Uninitialized, -2 exactly when it is Active and the id is not in the
\* registry, 0 exactly when it is Active and the id is in the registry; the
\* registry is the same after the call.
C6_HandleEventCodes ==
    last.op = "handleEvent"
        => /\ last.returned
           /\ last.ret \in {0, -1, -2}
           /\ last.ret = -1 <=> last.pre.g = "null"
           /\ last.ret = -2 <=> (last.pre.g = "obj" /\ last.id \notin DOMAIN last.pre.ais)
           /\ last.ret = 0 <=> (last.pre.g = "obj" /\ last.id \in DOMAIN last.pre.ais)
           /\ loadedAIs = last.pre.ais

\* C6 witness: an event delivered to a live id while another id is not live.
C6_Witness ==
    /\ last.op = "handleEvent"
    /\ last.ret = 0
    /\ last.id \in DOMAIN loadedAIs
    /\ DOMAIN loadedAIs # AIIds

\* C7: createInstance with an id that is already live returns an error code
\* that is not the assembly-not-found code (-2), and every record, the one
\* of that id included, is as before.
C7_DuplicateCreate ==
    (last.op = "createInstance" /\ last.pre.g = "obj" /\ last.id \in DOMAIN last.pre.ais)
        => /\ last.returned
           /\ last.ret < 0
           /\ last.ret # -2
           /\ loadedAIs = last.pre.ais

\* C7 witness: a second createInstance for a live id.
C7_Witness ==
    /\ last.op = "createInstance"
    /\ last.pre.g = "obj"
    /\ last.id \in DOMAIN last.pre.ais
    /\ last.pre.ais[last.id].assemblyPath # ""

\* C8: createInstance(id) for an id that is not live, followed immediately by
\* releaseInstance(id), returns 0 both times and leaves the registry equal
\* to the registry before the pair.
C8_CreateReleaseRoundTrip ==
    (/\ last.op = "releaseInstance" /\ prev.op = "createInstance"
     /\ last.id = prev.id
     /\ prev.pre.g = "obj" /\ prev.id \notin DOMAIN prev.pre.ais)
        => /\ prev.ret = 0
           /\ last.ret = 0
           /\ loadedAIs = prev.pre.ais

\* C8 witness: the pair on an empty registry, and the registry empty again.
C8_Witness ==
    /\ last.op = "releaseInstance" /\ prev.op = "createInstance"
    /\ last.id = prev.id
    /\ prev.pre.g = "obj"
    /\ prev.pre.ais = <<>>
    /\ DOMAIN last.pre.ais = {last.id}
    /\ loadedAIs = <<>>

\* C9: on an Active bridge, createInstance(id) for an id that is not live
\* returns 0; afterwards the registry holds a record for that id, and the
\* records of all other ids are the ones it held before.
C9_CreateInserts ==
    (last.op = "createInstance" /\ last.pre.g = "obj" /\ last.id \notin DOMAIN last.pre.ais)
        => /\ last.returned
           /\ last.ret = 0
           /\ DOMAIN loadedAIs = (DOMAIN last.pre.ais) \cup {last.id}
           /\ Cardinality(DOMAIN loadedAIs) = Cardinality(DOMAIN last.pre.ais) + 1
           /\ \A k \in DOMAIN last.pre.ais : loadedAIs[k] = last.pre.ais[k]

\* C9 witness: a create next to a live instance of another id.
C9_Witness ==
    /\ last.op = "createInstance"
    /\ last.ret = 0
    /\ DOMAIN last.pre.ais # {}
    /\ last.id \in DOMAIN loadedAIs
    /\ last.id \notin DOMAIN last.pre.ais

\* C10: a createInstance that returns a non-zero code leaves the registry
\* identical to the registry before the call.
C10_FailedCreateAtomic ==
    (last.op = "createInstance" /\ last.ret # 0)
        => /\ last.returned
           /\ loadedAIs = last.pre.ais

\* C10 witness: a create rejected on an Active bridge that holds records.
C10_Witness ==
    /\ last.op = "createInstance"
    /\ last.ret # 0
    /\ last.pre.g = "obj"
    /\ DOMAIN loadedAIs # {}

\* C11: with two live instances, releaseInstance on one removes only that
\* id's record and leaves the other record as it was, and a handleEvent on
\* the other id returns 0 after the release as it did before it.
C11_InstancesIndependent ==
    /\ (last.op = "releaseInstance" /\ last.pre.g = "obj"
        /\ last.id \in DOMAIN last.pre.ais)
          => /\ last.ret = 0
             /\ DOMAIN loadedAIs = (DOMAIN last.pre.ais) \ {last.id}
             /\ \A k \in (DOMAIN last.pre.ais) \ {last.id} :
                   /\ loadedAIs[k] = last.pre.ais[k]
                   /\ \A t \in Topics :
                         /\ HandleEvent(last.pre, k, t).ret = 0
                         /\ HandleEvent(Bridge, k, t) = Out(0, Bridge)
    /\ (/\ last.op = "handleEvent" /\ prev.op = "releaseInstance"
        /\ prev.pre.g = "obj"
        /\ last.id # prev.id
        /\ {last.id, prev.id} \subseteq DOMAIN prev.pre.ais)
          => last.ret = 0

\* C11 witness: two ids live, one released, then an event for the other.
C11_Witness ==
    /\ last.op = "handleEvent" /\ prev.op = "releaseInstance"
    /\ last.id # prev.id
    /\ {last.id, prev.id} \subseteq DOMAIN prev.pre.ais
    /\ prev.ret = 0
    /\ DOMAIN loadedAIs = (DOMAIN prev.pre.ais) \ {prev.id}

\* C12: on an Active bridge, releaseInstance for an id that is not in the
\* registry returns the instance-not-found code -2, which is not the
\* not-initialized code -1, and leaves the registry unchanged and the bridge
\* Active.
C12_ReleaseUnknownCode ==
    (last.op = "releaseInstance" /\ last.pre.g = "obj"
     /\ last.id \notin DOMAIN last.pre.ais)
        => /\ last.ret = -2
           /\ last.ret # -1
           /\ Bridge = last.pre

\* C13: releaseInstance for an id that is in the registry removes that id's
\* record and returns 0, and a createInstance with the same id right after
\* it is accepted.
C13_DestroyAlwaysRemoves ==
    /\ (last.op = "releaseInstance" /\ last.pre.g = "obj"
        /\ last.id \in DOMAIN last.pre.ais)
          => /\ last.returned
             /\ last.ret = 0
             /\ last.id \notin DOMAIN loadedAIs
    /\ (/\ last.op = "createInstance" /\ prev.op = "releaseInstance"
        /\ last.id = prev.id
        /\ prev.pre.g = "obj" /\ prev.id \in DOMAIN prev.pre.ais)
          => /\ last.ret = 0
             /\ last.id \in DOMAIN loadedAIs

\* C13 witness: a record whose runtime handle is null is released and the id
\* created again.
C13_Witness ==
    /\ last.op = "createInstance" /\ prev.op = "releaseInstance"
    /\ last.id = prev.id
    /\ prev.id \in DOMAIN prev.pre.ais
    /\ prev.pre.ais[prev.id].dotnetHandle = "null"
    /\ last.id \notin DOMAIN last.pre.ais
    /\ last.id \in DOMAIN loadedAIs

\* C14: unloadAllSkirmishAILibraries on an Active bridge returns 0 and
\* leaves the registry empty, whatever the number of live instances, and a
\* second call right after it returns 0 again with the registry still empty.
C14_UnloadAllIdempotent ==
    /\ (last.op = "unloadAllSkirmishAILibraries" /\ last.pre.g = "obj")
          => /\ last.returned
             /\ last.ret = 0
             /\ loadedAIs = <<>>
             /\ g_interface = "obj"
    /\ (/\ last.op = "unloadAllSkirmishAILibraries"
        /\ prev.op = "unloadAllSkirmishAILibraries"
        /\ prev.pre.g = "obj")
          => /\ prev.ret = 0
             /\ last.ret = 0
             /\ last.pre.ais = <<>>
             /\ loadedAIs = <<>>

\* C15: unloadAll destroys every instance that is live when it starts, each
\* one once, never faults on an entry removed during the traversal, and the
\* registry is empty when it returns.
C15_DestroyAllVisitsEach ==
    (last.op = "unloadAllSkirmishAILibraries" /\ last.pre.g = "obj")
        => /\ last.returned
           /\ last.visited = DOMAIN last.pre.ais
           /\ loadedAIs = <<>>

\* C16: unloadSkirmishAILibrary on an Active bridge returns 0 and leaves the
\* whole bridge state, the registry included, as it was; every live instance
\* still gets its events (handleEvent returns 0) afterwards.
C16_UnloadLibraryKeepsInstances ==
    /\ (last.op = "unloadSkirmishAILibrary" /\ last.pre.g = "obj")
          => /\ last.returned
             /\ last.ret = 0
             /\ Bridge = last.pre
             /\ g_interface = "obj"
    /\ (/\ last.op = "handleEvent" /\ prev.op = "unloadSkirmishAILibrary"
        /\ prev.pre.g = "obj"
        /\ last.id \in DOMAIN prev.pre.ais)
          => last.ret = 0

\* C16 witness: the kind of a live instance is unloaded and the instance
\* then handles an event.
C16_Witness ==
    /\ last.op = "handleEvent" /\ prev.op = "unloadSkirmishAILibrary"
    /\ prev.pre.g = "obj"
    /\ last.id \in DOMAIN prev.pre.ais
    /\ prev.pre.ais[last.id].shortName = prev.name
    /\ prev.pre.ais[last.id].version = prev.version
    /\ last.ret = 0

\* C17: loadSkirmishAILibrary for a kind that has no assembly on disk
\* returns null, and creates neither an instance record nor a callback table.
C17_UnresolvableKindNotFound ==
    (last.op = "loadSkirmishAILibrary" /\ last.pre.g = "obj"
     /\ <<last.name, last.version>> \notin disk)
        => /\ last.ptr = "null"
           /\ aiLibrary = last.preLib
           /\ loadedAIs = last.pre.ais

\* C18: a loadSkirmishAILibrary that returns a table does so on an Active
\* bridge, the table has init, release and handleEvent set, the bridge state
\* and the registry are as before; and in every state the table the host
\* holds is that same table, with its three entries still set.
C18_LoadReturnsStableTable ==
    /\ (last.op = "loadSkirmishAILibrary" /\ last.ptr # "null")
          => /\ last.returned
             /\ last.pre.g = "obj"
             /\ last.ptr = hostLib
             /\ Bridge = last.pre
    /\ (last.op = "loadSkirmishAILibrary" /\ last.pre.g = "obj"
        /\ <<last.name, last.version>> \in disk)
          => last.ptr # "null"
    /\ hostLib # "null"
          => /\ hostLib = "aiLibrary"
             /\ aiLibrary.init = "InitAI"
             /\ aiLibrary.release = "ReleaseAI"
             /\ aiLibrary.handleEvent = "HandleEvent"

\* C18 witness: a kind with an assembly is loaded on a bridge that holds an
\* instance created through the table handed out earlier; the same table
\* is returned.
C18_Witness ==
    /\ last.op = "loadSkirmishAILibrary"
    /\ <<last.name, last.version>> \in disk
    /\ last.ptr = "aiLibrary"
    /\ last.preLib.init = "InitAI"
    /\ hostLib = last.ptr
    /\ DOMAIN loadedAIs # {}

\* C19: two loads of different kinds return different tables, two loads of
\* the same kind return the same table.
C19_OneTablePerKind ==
    (/\ last.op = "loadSkirmishAILibrary" /\ prev.op = "loadSkirmishAILibrary"
     /\ last.ptr # "null" /\ prev.ptr # "null")
        => (last.ptr = prev.ptr
               <=> <<last.name, last.version>> = <<prev.name, prev.version>>)

C22_StopTearsDown ==
    /\ UnloadDotNetRuntime(Bridge).ret = 0
    /\ ~dotnetRuntimeLoaded => UnloadDotNetRuntime(Bridge).b = Bridge
    /\ \A i \in 1..Len(last.log) :
          (last.log[i].step = "stopRuntime" /\ i < Len(last.log))
             => /\ last.log[i + 1].b.loaded = FALSE
                /\ last.log[i + 1].b.handle = "null"

\* C23: a handleEvent that returns 0 has made exactly one call into the
\* hosted runtime, delivering its topic to the handle of its instance.
C23_EventDelivered ==
    (last.op = "handleEvent" /\ last.ret = 0)
        => last.rt = <<[id |-> last.id, topic |-> last.topic,
                        handle |-> last.pre.ais[last.id].dotnetHandle]>>

\* C24: every exported call and every callback returns a code: no call ends
\* in a fault or an exception that leaves the bridge.
C24_EveryCallReturns ==
    /\ last.returned
    /\ ~crashed

\* C25: while the bridge is Uninitialized, releaseStatic,
\* unloadSkirmishAILibrary and unloadAllSkirmishAILibraries return -1 and
\* loadSkirmishAILibrary returns null, the state (bridge, table, the host's
\* pointer) is unchanged, and an initStatic right after still succeeds.
C25_UninitializedCallsRejected ==
    /\ (/\ last.op \in {"releaseStatic", "unloadSkirmishAILibrary",
                        "unloadAllSkirmishAILibraries"}
        /\ last.pre.g = "null")
          => /\ last.returned
             /\ last.ret = -1
             /\ Bridge = last.pre
             /\ aiLibrary = last.preLib
    /\ (last.op = "loadSkirmishAILibrary" /\ last.pre.g = "null")
          => /\ last.returned
             /\ last.ptr = "null"
             /\ Bridge = last.pre
             /\ aiLibrary = last.preLib
    /\ (/\ last.op = "initStatic" /\ last.ctorOk
        /\ prev.op \in {"releaseStatic", "unloadSkirmishAILibrary",
                        "unloadAllSkirmishAILibraries", "loadSkirmishAILibrary"}
        /\ prev.pre.g = "null")
          => /\ last.ret = 0
             /\ g_interface = "obj"

\* C25 witness: an initStatic that succeeds right after one of these calls
\* was rejected on the released bridge.
C25_Witness ==
    /\ last.op = "initStatic" /\ last.ret = 0
    /\ prev.op \in {"releaseStatic", "unloadSkirmishAILibrary",
                    "unloadAllSkirmishAILibraries"}
    /\ prev.pre.g = "null"
    /\ prev.ret = -1
    /\ hostLib # "null"

\* C26: resolution is deterministic: with the disk unchanged, the path a
\* record got when it was created is the path a resolution of its
\* (shortName, version) returns now, whatever bridge calls came in between,
\* and two live records of the same kind carry the same path.
C26_ResolutionDeterministic ==
    /\ \A i \in DOMAIN loadedAIs :
          loadedAIs[i].assemblyPath
             = FindAIAssembly(loadedAIs[i].shortName, loadedAIs[i].version)
    /\ \A i, j \in DOMAIN loadedAIs :
          (/\ loadedAIs[i].shortName = loadedAIs[j].shortName
           /\ loadedAIs[i].version = loadedAIs[j].version)
             => loadedAIs[i].assemblyPath = loadedAIs[j].assemblyPath

\* C26 witness: two live records resolved at different times, with a
\* destroy between the two resolutions.
C26_Witness ==
    /\ Cardinality(DOMAIN loadedAIs) = 2
    /\ last.op = "createInstance" /\ last.ret = 0
    /\ prev.op = "releaseInstance" /\ prev.ret = 0
    /\ Cardinality(DOMAIN prev.pre.ais) = 2

\* C27: every record in the registry carries shortName "ExampleDotNetAI",
\* version "1.0" and the path FindAIAssembly returns for them, whichever id
\* it is for and whichever kinds were loaded before.
C27_RecordsCarryDefaultKind ==
    /\ \A i \in DOMAIN loadedAIs :
          /\ loadedAIs[i].shortName = "ExampleDotNetAI"
          /\ loadedAIs[i].version = "1.0"
          /\ loadedAIs[i].assemblyPath = FindAIAssembly("ExampleDotNetAI", "1.0")
    /\ \A i, j \in DOMAIN loadedAIs :
          [loadedAIs[i] EXCEPT !.dotnetHandle = "null"]
             = [loadedAIs[j] EXCEPT !.dotnetHandle = "null"]

\* C27 witness: two live records, the second created right after the kind
\* ("A", "1.0") was loaded.
C27_Witness ==
    /\ Cardinality(DOMAIN loadedAIs) = 2
    /\ last.op = "createInstance" /\ last.ret = 0
    /\ prev.op = "loadSkirmishAILibrary"
    /\ prev.name = "A" /\ prev.ptr # "null"

\* C28: createInstance never returns -2: it returns -1 when the bridge is
\* Uninitialized, -1 when the id is already live, and 0 otherwise, also when
\* no assembly is on disk.
C28_CreateNeverNotFound ==
    last.op = "createInstance"
        => /\ last.ret # -2
           /\ last.ret = IF \/ last.pre.g = "null"
                            \/ last.id \in DOMAIN last.pre.ais
                         THEN -1
                         ELSE 0

\* C28 witness: with no assembly on disk, a createInstance of a live id
\* returned -1 and the next createInstance, of a free id, returned 0.
C28_Witness ==
    /\ disk = {}
    /\ last.op = "createInstance" /\ last.ret = 0
    /\ prev.op = "createInstance" /\ prev.ret = -1
    /\ prev.id \in DOMAIN prev.pre.ais

\* C29: an initStatic whose construction fails returns -2 and leaves the
\* bridge Uninitialized: g_interface is null and nothing has changed, a
\* loadSkirmishAILibrary after it returns null, and an initStatic after it
\* is not rejected with -1.
C29_FailedInitLeavesUninitialized ==
    /\ (last.op = "initStatic" /\ last.pre.g = "null" /\ ~last.ctorOk)
          => /\ last.ret = -2
             /\ g_interface = "null"
             /\ Bridge = last.pre
             /\ \A k \in Kinds :
                   loadSkirmishAILibrary(Bridge, aiLibrary, k[1], k[2]).ptr = "null"
             /\ \A id \in InterfaceIds, ok \in BOOLEAN :
                   initStatic(Bridge, id, ok).ret # -1
    /\ (prev.op = "initStatic" /\ prev.ret = -2)
          => /\ last.op = "loadSkirmishAILibrary" => last.ptr = "null"
             /\ last.op = "initStatic" => last.ret # -1
             /\ (last.op = "initStatic" /\ last.ctorOk) => last.ret = 0

\* C29 witness: an initStatic that succeeds right after one whose
\* construction failed.
C29_Witness ==
    /\ last.op = "initStatic" /\ last.ret = 0 /\ g_interface = "obj"
    /\ prev.op = "initStatic" /\ prev.ret = -2 /\ ~prev.ctorOk

\* C30: FillUnitArray with a non-null array and maxCount > 0 returns
\* min(maxCount, GetUnitCount()) and writes exactly that many entries, the
\* first entries of the unit table in table order, and no entry beyond
\* them; with a null array or maxCount <= 0 it returns 0 and writes nothing.
C30_FillUnitArray ==
    wlast.op = "FillUnitArray"
        => IF wlast.preUnits.ptr # "null" /\ wlast.maxCount > 0
           THEN /\ wlast.ret = Min(wlast.maxCount, GetUnitCount)
                /\ wlast.ret <= wlast.maxCount
                /\ units.ptr = wlast.preUnits.ptr
                /\ Len(units.cells) = Len(wlast.preUnits.cells)
                /\ \A i \in 1..Len(units.cells) :
                      units.cells[i] = IF i <= wlast.ret
                                       THEN mockUnits[i]
                                       ELSE wlast.preUnits.cells[i]
           ELSE /\ wlast.ret = 0
                /\ units = wlast.preUnits

\* C30 witness: a FillUnitArray into an array with more room than the table
\* has units, made after resource fills: the whole table is copied and the
\* entry behind it is untouched.
C30_Witness ==
    /\ wlast.op = "FillUnitArray"
    /\ wlast.maxCount > GetUnitCount
    /\ wlast.ret = GetUnitCount
    /\ units.cells[GetUnitCount] = mockUnits[GetUnitCount]
    /\ units.cells[GetUnitCount + 1] = NoUnit
    /\ currentFrame > 1

\* C31: the k-th FillResourceState that returns 1 reports currentFrame = k;
\* GetCurrentFrame is the frame the latest such call reported (1 before any)
\* and no call makes it smaller; FillResourceState(null) returns 0 and
\* changes neither the frame counter nor the resources.
C31_FrameCounter ==
    /\ (wlast.op = "FillResourceState" /\ wlast.ret = 1)
          => /\ resources.val.currentFrame = wlast.fills
             /\ wlast.fills >= 1
    /\ GetCurrentFrame = wlast.reported
    /\ GetCurrentFrame >= wlast.preMock.currentFrame
    /\ (wlast.op = "FillResourceState" /\ wlast.preResources.ptr = "null")
          => /\ wlast.ret = 0
             /\ currentFrame = wlast.preFrame
             /\ mockResources = wlast.preMock
             /\ resources = wlast.preResources

\* C31 witness: the second successful FillResourceState, made after a unit
\* fill, has reported frame 2.
C31_Witness ==
    /\ wlast.op = "FillResourceState" /\ wlast.ret = 1
    /\ wlast.fills = 2
    /\ resources.val.currentFrame = 2
    /\ GetCurrentFrame = 2
    /\ units.ptr # "null"

\* The positions 1..unitCount of the units of the latest GetUnitsInRadius
\* that lie within the radius, in input order.
C32_InRadius ==
    SelectSeq([i \in 1..wlast.unitCount |-> i],
              LAMBDA i :
                  DistanceSquared(wlast.preUnits.cells[i], wlast.center[1],
                                  wlast.center[2], wlast.center[3])
                     <= wlast.radius * wlast.radius)

\* C32: GetUnitsInRadius returns n with 0 <= n <= min(unitCount,
\* maxResults) and writes exactly n ids, the ids of the first n input units
\* within the radius, in input order; with a null unit array, a null id
\* array, unitCount <= 0 or maxResults <= 0 it returns 0 and writes nothing.
C32_GetUnitsInRadius ==
    wlast.op = "GetUnitsInRadius"
        => IF /\ wlast.preUnits.ptr # "null" /\ wlast.preIds.ptr # "null"
              /\ wlast.unitCount > 0 /\ wlast.maxResults > 0
           THEN /\ 0 <= wlast.ret
                /\ wlast.ret <= Min(wlast.unitCount, wlast.maxResults)
                /\ wlast.ret = Min(Len(C32_InRadius), wlast.maxResults)
                /\ resultIds.ptr = wlast.preIds.ptr
                /\ Len(resultIds.cells) = Len(wlast.preIds.cells)
                /\ \A j \in 1..Len(resultIds.cells) :
                      resultIds.cells[j]
                         = IF j <= wlast.ret
                           THEN wlast.preUnits.cells[C32_InRadius[j]].id
                           ELSE wlast.preIds.cells[j]
           ELSE /\ wlast.ret = 0
                /\ resultIds = wlast.preIds

\* C32 witness: a query that skipped units outside the radius and stopped at
\* maxResults with a unit within the radius still unreported.
C32_Witness ==
    /\ wlast.op = "GetUnitsInRadius"
    /\ wlast.center = <<300, 0, 200>> /\ wlast.radius = 100
    /\ wlast.unitCount = 5 /\ wlast.maxResults = 2
    /\ wlast.ret = 2
    /\ resultIds.cells[1] = 3 /\ resultIds.cells[2] = 4
    /\ resultIds.cells[3] = 0 - 1

\* C33: killedCount is 0 or 1; a Kill called with killedCount > 0 (a Kill
\* in progress, or one that an exception aborted) returns at its guard and
\* runs no teardown step; and no teardown step runs twice.
C33_KillGuarded ==
    /\ killedCount \in {0, 1}
    /\ \A s \in KillSteps : ran[s] <= 1
    /\ (klast.op = "Kill" /\ klast.preCount > 0)
          => /\ klast.immediate
             /\ ran = klast.preRan
             /\ killedCount = klast.preCount

\* C33 witness: Kill(true) ran its first step and was aborted by an
\* exception; the Kill(false) that followed returned at the guard.
C33_Witness ==
    /\ klast.op = "Kill" /\ ~klast.fromRun
    /\ klast.preCount = 1 /\ klast.immediate
    /\ killTrue = 1
    /\ ran[1] = 1 /\ ran[MaxStep] = 0
    /\ pc = "exit"

\* C34: once PostKill on the other thread has stored its error and set
\* globalQuit, the request stays: while the main thread is still in the loop
\* of Run, globalQuit is true.
C34_QuitNeverLost ==
    (tpc = "done" /\ pc \in {"init", "initWrite", "while", "body", "updateWrite"})
        => globalQuit

====
